---- MODULE Spec2Model ----
(***************************************************************************)
(* Model of src/src/05-objects-tasks.js: the css selector builder          *)
(* (class NEWcssSelectorBuilder and the facade object cssSelectorBuilder), *)
(* the constructor Rectangle, and the functions getJSON and fromJSON.      *)
(*                                                                         *)
(* A JavaScript string is modelled as the sequence of its characters, so   *)
(* that template literals and Array.prototype.join are real               *)
(* concatenations: 'ab' is <<"a", "b">> and '' is <<>>.                    *)
(***************************************************************************)
EXTENDS Integers, Sequences, FiniteSets, TLC

VARIABLES
  chains,    \* the NEWcssSelectorBuilder objects alive, in creation order
  combiner,  \* cssSelectorBuilder.combiner
  call,      \* the call that was made last, with what it returned or threw
  hist,      \* history: per chain, the category calls that returned normally
  log,       \* history: the combine calls made since the last facade stringify
  rect,      \* the Rectangle objects alive: none or one
  rcall,     \* the call made last on Rectangle or on the object in rect
  js         \* an object, a prototype, and what getJSON and fromJSON returned

vars == <<chains, combiner, call, hist, log, rect, rcall, js>>

----------------------------------------------------------------------------
(* Bounds of the model *)

\* category calls that return normally, over all chains
MaxCalls == 3
\* combine calls between two facade stringify calls
MaxCombines == 2
\* the chains the two-chain specification follows
MaxChains == 2
\* the largest absolute value of a side, besides the sides 10 and 20
MaxSide == 2
\* the fields of an object passed to getJSON
MaxFields == 2

\* the strings passed as value to the category methods
Values == {<<>>, <<"a">>}
\* the strings passed as combinator to combine
Tokens == {<<>>, <<" ">>, <<"+">>}

\* no call on Rectangle has been made
NoRectCall == [op |-> "none", width |-> 0, height |-> 0, ret |-> 0]

\* getJSON and fromJSON have not been called
NoJson == [x |-> [proto |-> "Object.prototype", fields |-> <<>>],
           Proto |-> "Object.prototype", json |-> <<>>, object |-> <<>>]

----------------------------------------------------------------------------
(* JavaScript helpers *)

\* Array.prototype.indexOf: 0-based index of the first occurrence, or -1
indexOf(arr, x) ==
  IF \E i \in 1..Len(arr) : arr[i] = x
  THEN (CHOOSE i \in 1..Len(arr) : arr[i] = x /\ \A j \in 1..(i - 1) : arr[j] # x) - 1
  ELSE -1

\* Array.prototype.join(sep)
RECURSIVE join(_, _)
join(arr, sep) ==
  IF Len(arr) = 0 THEN <<>>
  ELSE IF Len(arr) = 1 THEN arr[1]
  ELSE arr[1] \o sep \o join(Tail(arr), sep)

\* Object.values of an object whose keys are the integers 1..6: the values
\* by ascending key, whatever the order the keys were inserted in
RECURSIVE ValuesFrom(_, _)
ValuesFrom(obj, k) ==
  IF k > 6 THEN <<>>
  ELSE (IF k \in DOMAIN obj THEN <<obj[k]>> ELSE <<>>) \o ValuesFrom(obj, k + 1)

ObjectValues(obj) == ValuesFrom(obj, 1)

\* obj[k] is truthy: the key is set and its string is not ''
Truthy(obj, k) == k \in DOMAIN obj /\ obj[k] # <<>>

\* obj[k] = v
SetKey(obj, k, v) == [i \in (DOMAIN obj) \cup {k} |-> IF i = k THEN v ELSE obj[i]]

----------------------------------------------------------------------------
(* class NEWcssSelectorBuilder *)

\* constructor: selector = {}, order = []
NewChain == [selector |-> <<>>, order |-> <<>>]

\* the array const check of the method check
checkList == <<"element", "id", "class", "attr", "pseudoClass", "pseudoElement">>

\* a check that throws on indexPrev >= indexCurrent
check_ge(this, value) ==
  LET length       == Len(this.order)
      prev         == IF length = 0 THEN "undefined" ELSE this.order[length]
      indexPrev    == indexOf(checkList, prev)
      indexCurrent == indexOf(checkList, value)
  IN IF indexPrev >= 0 /\ indexPrev >= indexCurrent
     THEN [this |-> this, err |-> "order"]
     ELSE [this |-> [this EXCEPT !.order =
                       IF indexPrev < indexCurrent THEN Append(@, value) ELSE @],
           err  |-> "none"]

\* a check that pushes value on order before it compares the indexes
check_pushFirst(this, value) ==
  LET length       == Len(this.order)
      prev         == IF length = 0 THEN "undefined" ELSE this.order[length]
      indexPrev    == indexOf(checkList, prev)
      indexCurrent == indexOf(checkList, value)
      pushed       == [this EXCEPT !.order =
                         IF indexPrev # indexCurrent THEN Append(@, value) ELSE @]
  IN IF indexPrev >= 0 /\ indexPrev > indexCurrent
     THEN [this |-> pushed, err |-> "order"]
     ELSE [this |-> pushed, err |-> "none"]

\* a check that pushes value on order on indexPrev <= indexCurrent
check_pushRepeated(this, value) ==
  LET length       == Len(this.order)
      prev         == IF length = 0 THEN "undefined" ELSE this.order[length]
      indexPrev    == indexOf(checkList, prev)
      indexCurrent == indexOf(checkList, value)
  IN IF indexPrev >= 0 /\ indexPrev > indexCurrent
     THEN [this |-> this, err |-> "order"]
     ELSE [this |-> [this EXCEPT !.order =
                       IF indexPrev <= indexCurrent THEN Append(@, value) ELSE @],
           err  |-> "none"]

\* check(value): throws, or pushes value on order when it is a later category.
\* prev is undefined on an empty order, and indexOf(undefined) is -1.
check(this, value) ==
  LET length       == Len(this.order)
      prev         == IF length = 0 THEN "undefined" ELSE this.order[length]
      indexPrev    == indexOf(checkList, prev)
      indexCurrent == indexOf(checkList, value)
  IN IF indexPrev >= 0 /\ indexPrev > indexCurrent
     THEN [this |-> this, err |-> "order"]
     ELSE [this |-> [this EXCEPT !.order =
                       IF indexPrev < indexCurrent THEN Append(@, value) ELSE @],
           err  |-> "none"]

\* a singleton category that tests selector[k] before it calls check
Single_duplicateFirst(this, category, k, fragment) ==
  IF Truthy(this.selector, k) THEN [this |-> this, err |-> "duplicate"]
  ELSE LET c == check(this, category)
       IN IF c.err # "none" THEN c
          ELSE [this |-> [c.this EXCEPT !.selector = SetKey(@, k, fragment)],
                err  |-> "none"]

\* element, id, pseudoElement: set selector[k] unless it is truthy
Single(this, category, k, fragment) ==
  LET c == check(this, category)
  IN IF c.err # "none" THEN c
     ELSE IF ~Truthy(c.this.selector, k)
     THEN [this |-> [c.this EXCEPT !.selector = SetKey(@, k, fragment)], err |-> "none"]
     ELSE [this |-> c.this, err |-> "duplicate"]

\* a repeatable category that assigns (=) where the code appends (+=)
Repeat_assign(this, category, k, fragment) ==
  LET c == check(this, category)
  IN IF c.err # "none" THEN c
     ELSE [this |-> [c.this EXCEPT !.selector = SetKey(@, k, fragment)], err |-> "none"]

\* class, attr, pseudoClass: set selector[k] unless it is truthy, else append
Repeat(this, category, k, fragment) ==
  LET c == check(this, category)
  IN IF c.err # "none" THEN c
     ELSE IF ~Truthy(c.this.selector, k)
     THEN [this |-> [c.this EXCEPT !.selector = SetKey(@, k, fragment)], err |-> "none"]
     ELSE [this |-> [c.this EXCEPT !.selector = SetKey(@, k, @[k] \o fragment)],
           err  |-> "none"]

element(this, value) == Single(this, "element", 1, value)

id(this, value) == Single(this, "id", 2, <<"#">> \o value)

class(this, value) == Repeat(this, "class", 3, <<".">> \o value)

attr(this, value) == Repeat(this, "attr", 4, <<"[">> \o value \o <<"]">>)

pseudoClass(this, value) == Repeat(this, "pseudoClass", 5, <<":">> \o value)

pseudoElement(this, value) == Single(this, "pseudoElement", 6, <<":", ":">> \o value)

\* a stringify that joins with join(), whose separator is ','
stringify_comma(this) == join(ObjectValues(this.selector), <<",">>)

\* stringify(): Object.values(this.selector).join('')
stringify(this) == join(ObjectValues(this.selector), <<>>)

\* the method of the given name
Method(category, this, value) ==
  CASE category = "element"       -> element(this, value)
    [] category = "id"            -> id(this, value)
    [] category = "class"         -> class(this, value)
    [] category = "attr"          -> attr(this, value)
    [] category = "pseudoClass"   -> pseudoClass(this, value)
    [] category = "pseudoElement" -> pseudoElement(this, value)

----------------------------------------------------------------------------
(* The calls a program makes *)

Categories == {checkList[i] : i \in 1..Len(checkList)}

RECURSIVE SumLen(_)
SumLen(ss) == IF Len(ss) = 0 THEN 0 ELSE Len(ss[1]) + SumLen(Tail(ss))

\* what call records: op, the chain it was made on (self), its arguments, the
\* error thrown ("none" when it returned), the object returned (ref: a chain,
\* 0 for the facade, -1 for none), the string returned (ret), and whether the
\* call before it was a stringify of the same object (again)
NoCall ==
  [op |-> "none", self |-> 0, category |-> "none", value |-> <<>>,
   left |-> 0, combinator |-> <<>>, right |-> 0,
   err |-> "none", ref |-> -1, ret |-> <<>>, again |-> FALSE]

\* chains[i].category(value): the method mutates the chain, also when it throws
Invoke(i, category, value) ==
  LET r == Method(category, chains[i], value)
  IN /\ i \in 1..Len(chains)
     /\ r.err = "none" => SumLen(hist) < MaxCalls
     /\ chains' = [chains EXCEPT ![i] = r.this]
     /\ hist' = IF r.err = "none"
                THEN [hist EXCEPT ![i] = Append(@, [category |-> category, value |-> value])]
                ELSE hist
     /\ call' = [NoCall EXCEPT !.op = "call", !.self = i, !.category = category,
                               !.value = value, !.err = r.err,
                               !.ref = IF r.err = "none" THEN i ELSE -1,
                               !.again = (call.op = "stringify" /\ call.self = i)]
     /\ UNCHANGED <<rect, rcall, js, combiner, log>>

CallElement(i, value) == Invoke(i, "element", value)

CallId(i, value) == Invoke(i, "id", value)

CallClass(i, value) == Invoke(i, "class", value)

CallAttr(i, value) == Invoke(i, "attr", value)

CallPseudoClass(i, value) == Invoke(i, "pseudoClass", value)

CallPseudoElement(i, value) == Invoke(i, "pseudoElement", value)

\* a stringify that empties the chain once it has joined the fragments
CallStringify_reset(i) ==
  /\ i \in 1..Len(chains)
  /\ call' = [NoCall EXCEPT !.op = "stringify", !.self = i, !.ret = stringify(chains[i]),
                            !.again = (call.op = "stringify" /\ call.self = i)]
  /\ chains' = [chains EXCEPT ![i].selector = <<>>]
  /\ UNCHANGED <<rect, rcall, js, combiner, hist, log>>

\* chains[i].stringify()
CallStringify(i) ==
  /\ i \in 1..Len(chains)
  /\ call' = [NoCall EXCEPT !.op = "stringify", !.self = i, !.ret = stringify(chains[i]),
                            !.again = (call.op = "stringify" /\ call.self = i)]
  /\ UNCHANGED <<rect, rcall, js, chains, combiner, hist, log>>

\* a facade whose entry methods go on with the chain made last instead of a
\* new one
Create_shared(category, value) ==
  LET r == Method(category,
                  IF chains = <<>> THEN NewChain ELSE chains[Len(chains)], value)
      i == Len(chains) + 1
  IN /\ SumLen(hist) < MaxCalls
     /\ chains' = IF r.err = "none" THEN Append(chains, r.this) ELSE chains
     /\ hist' = IF r.err = "none"
                THEN Append(hist, <<[category |-> category, value |-> value]>>)
                ELSE hist
     /\ call' = [NoCall EXCEPT !.op = "create", !.self = IF r.err = "none" THEN i ELSE 0,
                               !.category = category, !.value = value, !.err = r.err,
                               !.ref = IF r.err = "none" THEN i ELSE -1]
     /\ UNCHANGED <<rect, rcall, js, combiner, log>>

\* cssSelectorBuilder.category(value): new NEWcssSelectorBuilder().category(value)
Create(category, value) ==
  LET r == Method(category, NewChain, value)
      i == Len(chains) + 1
  IN /\ SumLen(hist) < MaxCalls
     /\ chains' = IF r.err = "none" THEN Append(chains, r.this) ELSE chains
     /\ hist' = IF r.err = "none"
                THEN Append(hist, <<[category |-> category, value |-> value]>>)
                ELSE hist
     /\ call' = [NoCall EXCEPT !.op = "create", !.self = IF r.err = "none" THEN i ELSE 0,
                               !.category = category, !.value = value, !.err = r.err,
                               !.ref = IF r.err = "none" THEN i ELSE -1]
     /\ UNCHANGED <<rect, rcall, js, combiner, log>>

BuilderElement(value) == Create("element", value)

BuilderId(value) == Create("id", value)

BuilderClass(value) == Create("class", value)

BuilderAttr(value) == Create("attr", value)

BuilderPseudoClass(value) == Create("pseudoClass", value)

BuilderPseudoElement(value) == Create("pseudoElement", value)

----------------------------------------------------------------------------
(* The facade object cssSelectorBuilder: combine *)

\* the facade as an operand of combine: an object with no selector property
Facade == [combiner |-> combiner]

\* obj.selector is truthy: the property exists (an object, even {}, is truthy)
HasSelector(obj) == "selector" \in DOMAIN obj

\* a combine that pushes its pieces at the end of this.combiner
combine_push(this, selector1, combinator, selector2) ==
  LET part1 == IF HasSelector(selector1)
               THEN <<join(ObjectValues(selector1.selector), <<>>)>> ELSE <<>>
      comb  == IF combinator # <<>> THEN <<combinator>> ELSE <<>>
      part2 == IF HasSelector(selector2)
               THEN <<join(ObjectValues(selector2.selector), <<>>)>> ELSE <<>>
      currentValue == part1 \o comb \o part2
  IN this.combiner \o currentValue

\* a combine that pushes the combinator without testing it
combine_always(this, selector1, combinator, selector2) ==
  LET part1 == IF HasSelector(selector1)
               THEN <<join(ObjectValues(selector1.selector), <<>>)>> ELSE <<>>
      part2 == IF HasSelector(selector2)
               THEN <<join(ObjectValues(selector2.selector), <<>>)>> ELSE <<>>
      currentValue == part1 \o <<combinator>> \o part2
  IN currentValue \o this.combiner

\* a combine that pushes the rendering of a chain only when it is not ''
combine_skipEmpty(this, selector1, combinator, selector2) ==
  LET value1 == IF HasSelector(selector1)
                THEN join(ObjectValues(selector1.selector), <<>>) ELSE <<>>
      value2 == IF HasSelector(selector2)
                THEN join(ObjectValues(selector2.selector), <<>>) ELSE <<>>
      part1 == IF value1 # <<>> THEN <<value1>> ELSE <<>>
      comb  == IF combinator # <<>> THEN <<combinator>> ELSE <<>>
      part2 == IF value2 # <<>> THEN <<value2>> ELSE <<>>
      currentValue == part1 \o comb \o part2
  IN currentValue \o this.combiner

\* combine(selector1, combinator, selector2): the new value of this.combiner.
\* A combinator is pushed when it is truthy, that is when it is not ''.
combine(this, selector1, combinator, selector2) ==
  LET part1 == IF HasSelector(selector1)
               THEN <<join(ObjectValues(selector1.selector), <<>>)>> ELSE <<>>
      comb  == IF combinator # <<>> THEN <<combinator>> ELSE <<>>
      part2 == IF HasSelector(selector2)
               THEN <<join(ObjectValues(selector2.selector), <<>>)>> ELSE <<>>
      currentValue == part1 \o comb \o part2
  IN currentValue \o this.combiner

\* the chain a program builds with the given category calls
RECURSIVE Build(_)
Build(calls) ==
  IF Len(calls) = 0 THEN NewChain
  ELSE LET n == Len(calls)
       IN Method(calls[n].category, Build(SubSeq(calls, 1, n - 1)), calls[n].value).this

\* the chains the program has built before it combines them:
\* element(''), element('a'), id('a').class('a')
OperandPrograms ==
  { <<[category |-> "element", value |-> <<>>]>>,
    <<[category |-> "element", value |-> <<"a">>]>>,
    <<[category |-> "id", value |-> <<"a">>], [category |-> "class", value |-> <<"a">>]>> }

----------------------------------------------------------------------------
(* One selector chain: the facade entry call that creates it, then the      *)
(* category calls and the stringify calls made on it                       *)

\* The facade is process-wide: a chain may be built while pieces of an earlier
\* combine call are still pending, or while none is
InitChain ==
  /\ rect = <<>> /\ rcall = NoRectCall /\ js = NoJson
  /\ chains = <<>>
  /\ hist = <<>>
  /\ call = NoCall
  /\ \/ combiner = <<>> /\ log = <<>>
     \/ \E p \in OperandPrograms :
          /\ combiner = combine([combiner |-> <<>>], Build(p), <<"+">>, Build(p))
          /\ log = <<[left |-> [chain |-> TRUE, calls |-> p], combinator |-> <<"+">>,
                      right |-> [chain |-> TRUE, calls |-> p]]>>

NextChain ==
  \/ \E v \in Values : chains = <<>> /\ BuilderElement(v)
  \/ \E v \in Values : chains = <<>> /\ BuilderId(v)
  \/ \E v \in Values : chains = <<>> /\ BuilderClass(v)
  \/ \E v \in Values : chains = <<>> /\ BuilderAttr(v)
  \/ \E v \in Values : chains = <<>> /\ BuilderPseudoClass(v)
  \/ \E v \in Values : chains = <<>> /\ BuilderPseudoElement(v)
  \/ \E i \in 1..Len(chains), v \in Values : CallElement(i, v)
  \/ \E i \in 1..Len(chains), v \in Values : CallId(i, v)
  \/ \E i \in 1..Len(chains), v \in Values : CallClass(i, v)
  \/ \E i \in 1..Len(chains), v \in Values : CallAttr(i, v)
  \/ \E i \in 1..Len(chains), v \in Values : CallPseudoClass(i, v)
  \/ \E i \in 1..Len(chains), v \in Values : CallPseudoElement(i, v)
  \/ \E i \in 1..Len(chains) : CallStringify(i)

SpecChain == InitChain /\ [][NextChain]_vars

----------------------------------------------------------------------------
(* Two chains: the facade's entry methods called when a chain exists *)

\* one chain has been built and one combine is pending
InitPair ==
  /\ rect = <<>> /\ rcall = NoRectCall /\ js = NoJson
  /\ \E p \in OperandPrograms :
       /\ chains = <<Build(p)>>
       /\ hist = <<p>>
       /\ combiner = combine([combiner |-> <<>>], Build(p), <<"+">>, Build(p))
       /\ log = <<[left |-> [chain |-> TRUE, calls |-> p], combinator |-> <<"+">>,
                   right |-> [chain |-> TRUE, calls |-> p]]>>
  /\ call = NoCall

\* the values passed to the category calls when two chains are followed
PairValues == {<<"a">>}

NextPair ==
  \/ \E v \in Values : Len(chains) < MaxChains /\ BuilderElement(v)
  \/ \E v \in Values : Len(chains) < MaxChains /\ BuilderId(v)
  \/ \E v \in Values : Len(chains) < MaxChains /\ BuilderClass(v)
  \/ \E v \in Values : Len(chains) < MaxChains /\ BuilderAttr(v)
  \/ \E v \in Values : Len(chains) < MaxChains /\ BuilderPseudoClass(v)
  \/ \E v \in Values : Len(chains) < MaxChains /\ BuilderPseudoElement(v)
  \/ \E i \in 1..Len(chains), v \in PairValues : CallElement(i, v)
  \/ \E i \in 1..Len(chains), v \in PairValues : CallId(i, v)
  \/ \E i \in 1..Len(chains), v \in PairValues : CallClass(i, v)
  \/ \E i \in 1..Len(chains), v \in PairValues : CallAttr(i, v)
  \/ \E i \in 1..Len(chains), v \in PairValues : CallPseudoClass(i, v)
  \/ \E i \in 1..Len(chains), v \in PairValues : CallPseudoElement(i, v)

SpecPair == InitPair /\ [][NextPair]_vars

----------------------------------------------------------------------------
(* The facade's calls: combine and stringify on chains built before *)

\* the object passed as operand k: the facade for 0, else the chain k
Operand(k) == IF k = 0 THEN Facade ELSE chains[k]

\* what log records of an operand: whether it was a chain, and the calls that
\* had built the chain by then
Logged(k) == IF k = 0 THEN [chain |-> FALSE, calls |-> <<>>]
             ELSE [chain |-> TRUE, calls |-> hist[k]]

\* cssSelectorBuilder.combine(l, combinator, r); it returns the facade
Combine(l, combinator, r) ==
  /\ l \in 0..Len(chains)
  /\ r \in 0..Len(chains)
  /\ Len(log) < MaxCombines
  /\ combiner' = combine(Facade, Operand(l), combinator, Operand(r))
  /\ log' = Append(log, [left |-> Logged(l), combinator |-> combinator,
                         right |-> Logged(r)])
  /\ call' = [NoCall EXCEPT !.op = "combine", !.left = l, !.combinator = combinator,
                            !.right = r, !.ref = 0]
  /\ UNCHANGED <<rect, rcall, js, chains, hist>>

\* a stringify that joins with join(), whose separator is ','
BuilderStringify_comma ==
  /\ call' = [NoCall EXCEPT !.op = "drain", !.ret = join(combiner, <<",">>),
                            !.again = (call.op = "drain")]
  /\ combiner' = <<>>
  /\ log' = <<>>
  /\ UNCHANGED <<rect, rcall, js, chains, hist>>

\* a stringify that does not reset this.combiner
BuilderStringify_keep ==
  /\ call' = [NoCall EXCEPT !.op = "drain", !.ret = join(combiner, <<" ">>),
                            !.again = (call.op = "drain")]
  /\ log' = <<>>
  /\ UNCHANGED <<rect, rcall, js, chains, hist, combiner>>

\* cssSelectorBuilder.stringify()
BuilderStringify ==
  /\ call' = [NoCall EXCEPT !.op = "drain", !.ret = join(combiner, <<" ">>),
                            !.again = (call.op = "drain")]
  /\ combiner' = <<>>
  /\ log' = <<>>
  /\ UNCHANGED <<rect, rcall, js, chains, hist>>

InitFacade ==
  /\ rect = <<>> /\ rcall = NoRectCall /\ js = NoJson
  /\ \E p \in OperandPrograms, q \in OperandPrograms :
       /\ chains = <<Build(p), Build(q)>>
       /\ hist = <<p, q>>
  /\ combiner = <<>>
  /\ call = NoCall
  /\ log = <<>>

NextFacade ==
  \/ \E l \in 0..Len(chains), c \in Tokens, r \in 0..Len(chains) : Combine(l, c, r)
  \/ BuilderStringify

SpecFacade == InitFacade /\ [][NextFacade]_vars

----------------------------------------------------------------------------
(* Rectangle *)

\* the numbers passed as width and height, and assigned to the fields
Sides == (-MaxSide..MaxSide) \cup {10, 20}

\* the module as loaded: no chain, nothing pending, no call made
InitBuilder ==
  /\ chains = <<>>
  /\ hist = <<>>
  /\ combiner = <<>>
  /\ log = <<>>
  /\ call = NoCall

\* new Rectangle(width, height): the object built. The arrow function stored
\* in getArea closes over the constructor's scope: this, width and height.
Rectangle(width, height) ==
  [width |-> width, height |-> height,
   scope |-> [width |-> width, height |-> height]]

\* a getArea that multiplies the constructor's parameters
getArea_parameters(this) == this.scope.width * this.scope.height

\* this.getArea(): () => this.width * this.height
getArea(this) == this.width * this.height

\* r = new Rectangle(width, height)
NewRectangle(width, height) ==
  /\ rect' = <<Rectangle(width, height)>>
  /\ rcall' = [NoRectCall EXCEPT !.op = "new", !.width = width, !.height = height]
  /\ UNCHANGED <<chains, combiner, call, hist, log, js>>

\* r.width = width, by the code that holds r
SetWidth(width) ==
  /\ rect # <<>>
  /\ rect' = <<[rect[1] EXCEPT !.width = width]>>
  /\ rcall' = [NoRectCall EXCEPT !.op = "width", !.width = width]
  /\ UNCHANGED <<chains, combiner, call, hist, log, js>>

\* r.height = height, by the code that holds r
SetHeight(height) ==
  /\ rect # <<>>
  /\ rect' = <<[rect[1] EXCEPT !.height = height]>>
  /\ rcall' = [NoRectCall EXCEPT !.op = "height", !.height = height]
  /\ UNCHANGED <<chains, combiner, call, hist, log, js>>

\* r.getArea()
GetArea ==
  /\ rect # <<>>
  /\ rcall' = [NoRectCall EXCEPT !.op = "getArea", !.ret = getArea(rect[1])]
  /\ UNCHANGED <<chains, combiner, call, hist, log, rect, js>>

InitRect ==
  /\ InitBuilder
  /\ rect = <<>> /\ rcall = NoRectCall /\ js = NoJson

NextRect ==
  \/ \E w \in Sides, h \in Sides : NewRectangle(w, h)
  \/ \E w \in Sides : SetWidth(w)
  \/ \E h \in Sides : SetHeight(h)
  \/ GetArea

SpecRect == InitRect /\ [][NextRect]_vars

----------------------------------------------------------------------------
(* getJSON and fromJSON *)

\* A JavaScript value that JSON represents: a number, a string, true, false
\* or null. An object is its prototype and its own enumerable fields, in
\* the order they were added.
Number(n) == [type |-> "number", num |-> n, str |-> <<>>]

String(str) == [type |-> "string", num |-> 0, str |-> str]

Literal(name) == [type |-> name, num |-> 0, str |-> <<>>]

\* the values of the fields: -1, 0, 10, '', 'a"\', true, null
JsonValues ==
  {Number(-1), Number(0), Number(10), String(<<>>), String(<<"a", "\"", "\\">>),
   Literal("true"), Literal("null")}

\* the names of the fields
Keys == {<<"w">>, <<"h">>, <<"r">>}

Protos == {"Object.prototype", "Circle.prototype"}

\* the objects passed to getJSON: at most MaxFields fields of distinct names
Objects ==
  UNION {{[proto |-> proto, fields |-> fields] :
            proto \in Protos,
            fields \in {f \in [1..n -> [key : Keys, value : JsonValues]] :
                          \A i, j \in 1..n : f[i].key = f[j].key => i = j}} :
         n \in 0..MaxFields}

DigitChars == <<"0", "1", "2", "3", "4", "5", "6", "7", "8", "9">>

\* the decimal digits of a natural number
RECURSIVE Digits(_)
Digits(n) ==
  IF n < 10 THEN <<DigitChars[n + 1]>>
  ELSE Digits(n \div 10) \o <<DigitChars[(n % 10) + 1]>>

\* Number::toString of an integer
NumberToString(n) == IF n < 0 THEN <<"-">> \o Digits(-n) ELSE Digits(n)

\* QuoteJSONString: the string between double quotes, with a backslash before
\* each double quote and each backslash
RECURSIVE Escaped(_)
Escaped(str) ==
  IF Len(str) = 0 THEN <<>>
  ELSE (IF str[1] \in {"\"", "\\"} THEN <<"\\", str[1]>> ELSE <<str[1]>>)
       \o Escaped(Tail(str))

Quote(str) == <<"\"">> \o Escaped(str) \o <<"\"">>

\* SerializeJSONProperty of a value
SerializeValue(v) ==
  CASE v.type = "number" -> NumberToString(v.num)
    [] v.type = "string" -> Quote(v.str)
    [] v.type = "true"   -> <<"t", "r", "u", "e">>
    [] v.type = "false"  -> <<"f", "a", "l", "s", "e">>
    [] v.type = "null"   -> <<"n", "u", "l", "l">>

\* JSON.stringify(obj) of an object: its own fields in order, no white space;
\* the prototype is not written
JSONstringify(obj) ==
  <<"{">>
    \o join([i \in 1..Len(obj.fields) |->
               Quote(obj.fields[i].key) \o <<":">> \o SerializeValue(obj.fields[i].value)],
            <<",">>)
    \o <<"}">>

\* getJSON(obj)
getJSON(obj) == JSONstringify(obj)

\* the number a digit stands for
DigitValue(c) == CHOOSE d \in 0..9 : DigitChars[d + 1] = c

IsDigit(c) == \E d \in 0..9 : DigitChars[d + 1] = c

\* a JSON string read from the text after its opening double quote: the
\* characters up to the closing one, a backslash standing for the character
\* after it; rest is the text after the closing double quote
RECURSIVE ScanString(_, _)
ScanString(text, str) ==
  IF text[1] = "\"" THEN [value |-> str, rest |-> Tail(text)]
  ELSE IF text[1] = "\\" THEN ScanString(Tail(Tail(text)), Append(str, text[2]))
  ELSE ScanString(Tail(text), Append(str, text[1]))

\* the digits at the start of the text, read as a decimal number
RECURSIVE ScanDigits(_, _)
ScanDigits(text, n) ==
  IF Len(text) > 0 /\ IsDigit(text[1])
  THEN ScanDigits(Tail(text), 10 * n + DigitValue(text[1]))
  ELSE [value |-> n, rest |-> text]

\* the JSON value at the start of the text, and the text after it
ParseValue(text) ==
  CASE text[1] = "\"" -> LET r == ScanString(Tail(text), <<>>)
                         IN [value |-> String(r.value), rest |-> r.rest]
    [] text[1] = "-"  -> LET r == ScanDigits(Tail(text), 0)
                         IN [value |-> Number(-r.value), rest |-> r.rest]
    [] IsDigit(text[1]) -> LET r == ScanDigits(text, 0)
                           IN [value |-> Number(r.value), rest |-> r.rest]
    [] text[1] = "t"  -> [value |-> Literal("true"), rest |-> SubSeq(text, 5, Len(text))]
    [] text[1] = "f"  -> [value |-> Literal("false"), rest |-> SubSeq(text, 6, Len(text))]
    [] text[1] = "n"  -> [value |-> Literal("null"), rest |-> SubSeq(text, 5, Len(text))]

\* CreateDataProperty: a new name is added last, a name the object has keeps
\* its place and takes the new value
DefineField(fields, key, value) ==
  IF \E i \in 1..Len(fields) : fields[i].key = key
  THEN [i \in 1..Len(fields) |->
          IF fields[i].key = key THEN [key |-> key, value |-> value] ELSE fields[i]]
  ELSE Append(fields, [key |-> key, value |-> value])

\* the members of a JSON object read from the text after '{' or after a
\* member, up to '}'
RECURSIVE ParseMembers(_, _)
ParseMembers(text, fields) ==
  IF text[1] = "}" THEN fields
  ELSE LET member == IF text[1] = "," THEN Tail(text) ELSE text
           k == ScanString(Tail(member), <<>>)
           v == ParseValue(Tail(k.rest))
       IN ParseMembers(v.rest, DefineField(fields, k.value, v.value))

\* JSON.parse(text) of a text JSON.stringify wrote for an object: an ordinary
\* object with the members of the text
JSONparse(text) ==
  [proto |-> "Object.prototype", fields |-> ParseMembers(Tail(text), <<>>)]

\* a fromJSON that does not set the prototype
fromJSON_noPrototype(Proto, json) == JSONparse(json)

\* fromJSON(Proto, json)
fromJSON(Proto, json) ==
  LET object == JSONparse(json)
  IN [object EXCEPT !.proto = Proto]

\* json = getJSON(x)
GetJSON ==
  /\ js' = [js EXCEPT !.json = getJSON(js.x), !.object = <<>>]
  /\ UNCHANGED <<chains, combiner, call, hist, log, rect, rcall>>

\* fromJSON(Proto, json), with the string getJSON returned
FromJSON ==
  /\ js.json # <<>>
  /\ js' = [js EXCEPT !.object = <<fromJSON(js.Proto, js.json)>>]
  /\ UNCHANGED <<chains, combiner, call, hist, log, rect, rcall>>

InitJson ==
  /\ InitBuilder
  /\ rect = <<>> /\ rcall = NoRectCall
  /\ \E x \in Objects, Proto \in Protos :
       js = [x |-> x, Proto |-> Proto, json |-> <<>>, object |-> <<>>]

NextJson ==
  \/ GetJSON
  \/ FromJSON

SpecJson == InitJson /\ [][NextJson]_vars

----------------------------------------------------------------------------
(* What the specification says, stated over the histories hist and log *)

\* canonical index of a category: element, id, class, attribute,
\* pseudo-class, pseudo-element
CanonIndex(category) ==
  CASE category = "element"       -> 0
    [] category = "id"            -> 1
    [] category = "class"         -> 2
    [] category = "attr"          -> 3
    [] category = "pseudoClass"   -> 4
    [] category = "pseudoElement" -> 5

Singletons == {"element", "id", "pseudoElement"}

Repeatables == {"class", "attr", "pseudoClass"}

\* canonical index of the category added last by the calls, -1 when none was
LastIndex(calls) ==
  IF Len(calls) = 0 THEN -1 ELSE CanonIndex(calls[Len(calls)].category)

\* a value wrapped in the delimiter of its category
Wrapped(category, value) ==
  CASE category = "element"       -> value
    [] category = "id"            -> <<"#">> \o value
    [] category = "class"         -> <<".">> \o value
    [] category = "attr"          -> <<"[">> \o value \o <<"]">>
    [] category = "pseudoClass"   -> <<":">> \o value
    [] category = "pseudoElement" -> <<":", ":">> \o value

\* the values the calls gave to one category, each wrapped, in call order
RECURSIVE Fragments(_, _)
Fragments(calls, category) ==
  IF Len(calls) = 0 THEN <<>>
  ELSE (IF calls[1].category = category
        THEN Wrapped(category, calls[1].value) ELSE <<>>)
       \o Fragments(Tail(calls), category)

\* the fragments of the calls in canonical order, with no separator
Render(calls) ==
  Fragments(calls, "element") \o Fragments(calls, "id") \o Fragments(calls, "class")
    \o Fragments(calls, "attr") \o Fragments(calls, "pseudoClass")
    \o Fragments(calls, "pseudoElement")

\* the fragment stored under key k, '' when none is
Get(obj, k) == IF k \in DOMAIN obj THEN obj[k] ELSE <<>>

\* the chain and the history a category call (call') was made on
CalledChain == IF call'.op = "create" THEN NewChain ELSE chains[call'.self]

CalledHist == IF call'.op = "create" THEN <<>> ELSE hist[call'.self]

IsCategoryCall == call'.op \in {"call", "create"}

----------------------------------------------------------------------------
(* C1: a category call on a chain throws the order error if and only if    *)
(* the canonical index of its category is strictly less than that of the   *)
(* category added last to the chain; repeating the current category or     *)
(* moving to a later one never throws it.                                  *)
C1_OrderErrorIffEarlier ==
  [][IsCategoryCall =>
       ((call'.err = "order") <=> (CanonIndex(call'.category) < LastIndex(CalledHist)))]_vars

\* after class, class a call of id or element has thrown the order error
C1_Witness ==
  /\ call.op = "call" /\ call.err = "order" /\ call.category \in {"id", "element"}
  /\ Len(hist[1]) = 2
  /\ hist[1][1].category = "class" /\ hist[1][2].category = "class"

(* C2: no chain ever accepts two calls of element, two of id or two of      *)
(* pseudoElement, whatever the values, the empty string included.          *)
C2_NoSecondSingleton ==
  \A i \in 1..Len(hist) : \A category \in Singletons :
    Cardinality({k \in 1..Len(hist[i]) : hist[i][k].category = category}) <= 1

(* C3: a call of class, attr or pseudoClass on a chain whose current       *)
(* category is that one or an earlier one returns normally; the stored     *)
(* fragment of the category becomes the old one followed by the wrapped    *)
(* value, so it is the wrapped values in call order; the fragments of the  *)
(* other categories are unchanged.                                         *)
C3_RepeatableAppends ==
  [][(/\ IsCategoryCall
      /\ call'.category \in Repeatables
      /\ LastIndex(CalledHist) <= CanonIndex(call'.category))
     => LET k   == CanonIndex(call'.category) + 1
            old == CalledChain.selector
            new == chains'[call'.self].selector
        IN /\ call'.err = "none"
           /\ new[k] = Get(old, k) \o Wrapped(call'.category, call'.value)
           /\ new[k] = Fragments(hist'[call'.self], call'.category)
           /\ \A j \in (1..6) \ {k} :
                /\ j \in DOMAIN new <=> j \in DOMAIN old
                /\ j \in DOMAIN old => new[j] = old[j]]_vars

\* class was called three times, with values that differ
C3_Witness ==
  /\ call.op = "call" /\ call.category = "class" /\ call.err = "none"
  /\ Len(hist[1]) = 3
  /\ \A k \in 1..3 : hist[1][k].category = "class"
  /\ hist[1][1].value # hist[1][2].value
  /\ chains[1].selector[3] = <<".", ".", "a", ".", "a">>

(* C4: stringify of a chain returns the fragments of the calls the chain   *)
(* accepted, concatenated with no separator in canonical order, the        *)
(* categories never added being skipped.                                   *)
C4_StringifyCanonical ==
  call.op = "stringify" => call.ret = Render(hist[call.self])

\* element('a').attr('a').pseudoClass('a').stringify() returned 'a[a]:a'
C4_Witness ==
  /\ call.op = "stringify"
  /\ Len(hist[1]) = 3
  /\ hist[1][1].category = "element" /\ hist[1][2].category = "attr"
  /\ hist[1][3].category = "pseudoClass"
  /\ call.ret = <<"a", "[", "a", "]", ":", "a">>

(* C10: stringify of a chain changes neither the chain (its fragments and  *)
(* its category order) nor the facade's pending sequence; called again it  *)
(* returns the same string, and every category call after it does what it  *)
(* would have done before it.                                              *)
C10_StringifyReadOnly ==
  [][call'.op = "stringify" =>
       /\ chains' = chains
       /\ combiner' = combiner
       /\ call'.again => call'.ret = call.ret
       /\ \A category \in Categories, value \in Values :
            Method(category, chains'[call'.self], value)
              = Method(category, chains[call'.self], value)]_vars

\* stringify was called twice in a row on a chain of two categories, while
\* pieces were pending in the facade
C10_Witness ==
  /\ call.op = "stringify" /\ call.again
  /\ Len(chains[1].order) = 2
  /\ call.ret # <<>>
  /\ combiner # <<>>

\* the calls accepted a call of the category before
Added(calls, category) == \E k \in 1..Len(calls) : calls[k].category = category

(* C14: the order check comes before the duplicate check: a call of        *)
(* element, id or pseudoElement that repeats the category and is out of    *)
(* canonical order throws the order error; the duplicate error is thrown   *)
(* only when the repeated category is the one the chain added last.        *)
C14_OrderBeforeDuplicate ==
  [][(IsCategoryCall /\ call'.category \in Singletons) =>
       /\ (/\ Added(CalledHist, call'.category)
           /\ CanonIndex(call'.category) < LastIndex(CalledHist))
          => call'.err = "order"
       /\ call'.err = "duplicate" =>
            /\ Added(CalledHist, call'.category)
            /\ CanonIndex(call'.category) = LastIndex(CalledHist)]_vars

\* element, then id, then element again has thrown the order error
C14_Witness ==
  /\ call.op = "call" /\ call.category = "element" /\ call.err = "order"
  /\ Len(hist[1]) = 2
  /\ hist[1][1].category = "element" /\ hist[1][2].category = "id"

(* C17: a category call that throws, the order error or the duplicate      *)
(* error, leaves the chain as it was: the fragments and the category order *)
(* are unchanged, stringify returns the same string and every next call    *)
(* does what it would have done before.                                    *)
C17_FailedCallChangesNothing ==
  [][(call'.op = "call" /\ call'.err # "none") =>
       /\ chains'[call'.self].selector = chains[call'.self].selector
       /\ chains'[call'.self].order = chains[call'.self].order
       /\ stringify(chains'[call'.self]) = stringify(chains[call'.self])
       /\ \A category \in Categories :
            Method(category, chains'[call'.self], <<"a">>).err
              = Method(category, chains[call'.self], <<"a">>).err]_vars

\* a second id has thrown the duplicate error on a chain of two fragments
C17_Witness ==
  /\ call.op = "call" /\ call.category = "id" /\ call.err = "duplicate"
  /\ Len(hist[1]) = 2
  /\ DOMAIN chains[1].selector = {1, 2}

(* C18: in every state of a chain the category order is strictly           *)
(* increasing in canonical index, holds no category twice and holds        *)
(* exactly the categories that have a stored fragment; its last entry is   *)
(* the stored category of highest index.                                   *)
C18_OrderMatchesFragments ==
  \A i \in 1..Len(chains) :
    LET order  == chains[i].order
        stored == DOMAIN chains[i].selector
    IN /\ \A j \in 1..(Len(order) - 1) : CanonIndex(order[j]) < CanonIndex(order[j + 1])
       /\ \A j, k \in 1..Len(order) : order[j] = order[k] => j = k
       /\ {CanonIndex(order[j]) + 1 : j \in 1..Len(order)} = stored
       /\ stored # {} =>
            \A k \in stored : k <= CanonIndex(order[Len(order)]) + 1

\* a chain of three categories, the class added twice
C18_Witness ==
  /\ Len(chains) = 1
  /\ chains[1].order = <<"id", "class">>
  /\ Len(hist[1]) = 3
  /\ DOMAIN chains[1].selector = {2, 3}

(* C16 as stated: a chain is read-only once its stringify has been called: *)
(* a category call made on it after that changes neither the stored        *)
(* fragments nor what stringify returns.                                   *)
C16_ReadOnlyAfterStringify ==
  [][(call'.op = "call" /\ call'.again) =>
       /\ chains'[call'.self].selector = chains[call'.self].selector
       /\ stringify(chains'[call'.self]) = call.ret]_vars

(* C16 as amended: stringify does not end a chain: a category call made    *)
(* on it after that is checked as any other; when it throws the chain is   *)
(* unchanged, and when it returns its fragment is stored, so that the next *)
(* stringify returns the rendering with the new fragment.                  *)
C16_CallsAfterStringifyAreOrdinary ==
  [][(call'.op = "call" /\ call'.again) =>
       /\ (call'.err = "order")
            <=> (CanonIndex(call'.category) < LastIndex(hist[call'.self]))
       /\ call'.err # "none" => stringify(chains'[call'.self]) = call.ret
       /\ call'.err = "none" =>
            /\ stringify(chains'[call'.self]) = Render(hist'[call'.self])
            /\ call'.category \in Repeatables =>
                 Len(stringify(chains'[call'.self])) > Len(call.ret)]_vars

\* id('a').stringify() returned '#a', then class('a') made the chain '#a.a'
C16_Witness ==
  /\ call.op = "call" /\ call.again /\ call.err = "none" /\ call.category = "class"
  /\ Len(hist[1]) = 2
  /\ stringify(chains[1]) = <<"#", "a", ".", "a">>

(* C11: an entry method of the facade never throws, whatever was built     *)
(* before; it returns a new chain that holds only the fragment of that     *)
(* call and records its category as the last one; it leaves the chains     *)
(* that exist and the pending sequence unchanged. A category call on one   *)
(* chain leaves every other chain's fragments and last-category record,    *)
(* and the pending sequence, unchanged.                                    *)
C11_FreshIndependentChains ==
  [][/\ call'.op = "create" =>
          /\ call'.err = "none"
          /\ call'.ref = Len(chains) + 1
          /\ Len(chains') = Len(chains) + 1
          /\ DOMAIN chains'[call'.ref].selector = {CanonIndex(call'.category) + 1}
          /\ chains'[call'.ref].selector[CanonIndex(call'.category) + 1]
               = Wrapped(call'.category, call'.value)
          /\ chains'[call'.ref].order = <<call'.category>>
          /\ \A j \in 1..Len(chains) : chains'[j] = chains[j]
          /\ combiner' = combiner
     /\ call'.op = "call" =>
          /\ Len(chains') = Len(chains)
          /\ \A j \in 1..Len(chains) :
               j # call'.self => /\ chains'[j].selector = chains[j].selector
                                 /\ chains'[j].order = chains[j].order
          /\ combiner' = combiner]_vars

\* the facade's element('a') was called when the chain 'a' existed, on which
\* it would throw, and then id('a') was called on the new chain
C11_Witness ==
  /\ Len(chains) = 2
  /\ hist[1] = <<[category |-> "element", value |-> <<"a">>]>>
  /\ hist[2] = <<[category |-> "element", value |-> <<"a">>],
                 [category |-> "id", value |-> <<"a">>]>>
  /\ call.op = "call" /\ call.self = 2 /\ call.err = "none"
  /\ stringify(chains[1]) = <<"a">>
  /\ combiner # <<>>

----------------------------------------------------------------------------
(* The facade *)

\* pieces joined by single spaces
RECURSIVE Spaced(_)
Spaced(pieces) ==
  IF Len(pieces) = 0 THEN <<>>
  ELSE IF Len(pieces) = 1 THEN pieces[1]
  ELSE pieces[1] \o <<" ">> \o Spaced(Tail(pieces))

\* the piece of an operand: the rendering of a chain, nothing for the facade
Piece(operand) == IF operand.chain THEN <<Render(operand.calls)>> ELSE <<>>

\* the piece of a combinator: nothing for the empty string
TokenPiece(combinator) == IF combinator = <<>> THEN <<>> ELSE <<combinator>>

\* the pieces pending after the logged combine calls, the newest call's first
RECURSIVE Pending(_)
Pending(calls) ==
  IF Len(calls) = 0 THEN <<>>
  ELSE LET n == Len(calls)
       IN Piece(calls[n].left) \o TokenPiece(calls[n].combinator)
            \o Piece(calls[n].right) \o Pending(SubSeq(calls, 1, n - 1))

NonEmptyTokens(calls) == \A k \in 1..Len(calls) : calls[k].combinator # <<>>

\* the logged calls are combine(s1, c1, combine(s2, c2, ... combine(s, c, s'))):
\* the first call combines two chains, each later one a chain and the facade
IsRightNested(calls) ==
  /\ Len(calls) >= 1
  /\ calls[1].left.chain /\ calls[1].right.chain
  /\ \A k \in 2..Len(calls) : calls[k].left.chain /\ ~calls[k].right.chain

\* render(s1), c1, render(s2), c2, ..., render(sn) of right-nested calls
RECURSIVE RightNestedPieces(_)
RightNestedPieces(calls) ==
  LET n == Len(calls)
  IN IF n = 1
     THEN <<Render(calls[1].left.calls), calls[1].combinator, Render(calls[1].right.calls)>>
     ELSE <<Render(calls[n].left.calls), calls[n].combinator>>
            \o RightNestedPieces(SubSeq(calls, 1, n - 1))

\* the first call combines two chains; each later one combines the result of
\* the calls before it, on either side, with a chain
IsNested(calls) ==
  /\ Len(calls) >= 1
  /\ calls[1].left.chain /\ calls[1].right.chain
  /\ \A k \in 2..Len(calls) : calls[k].left.chain # calls[k].right.chain

\* the rendering of L, then c, then the rendering of R, of nested calls
RECURSIVE NestedPieces(_)
NestedPieces(calls) ==
  LET n == Len(calls)
  IN IF n = 1
     THEN <<Render(calls[1].left.calls), calls[1].combinator, Render(calls[1].right.calls)>>
     ELSE IF calls[n].left.chain
     THEN <<Render(calls[n].left.calls), calls[n].combinator>>
            \o NestedPieces(SubSeq(calls, 1, n - 1))
     ELSE NestedPieces(SubSeq(calls, 1, n - 1))
            \o <<calls[n].combinator, Render(calls[n].right.calls)>>

(* C5 as stated: from an empty pending sequence, right-nested combine      *)
(* calls followed by the facade's stringify return render(s1), c1,         *)
(* render(s2), ..., render(sn) joined by single spaces, each combinator    *)
(* verbatim.                                                               *)
C5_RightNested ==
  [][(call'.op = "drain" /\ IsRightNested(log))
     => call'.ret = Spaced(RightNestedPieces(log))]_vars

(* C5 as amended: the same, for combinators that are not the empty string. *)
C5_RightNestedNonEmptyTokens ==
  [][(call'.op = "drain" /\ IsRightNested(log) /\ NonEmptyTokens(log))
     => call'.ret = Spaced(RightNestedPieces(log))]_vars

\* combine(a, '+', combine(#a.a, ' ', a)).stringify() returned 'a + #a.a   a'
C5_Witness ==
  /\ call.op = "drain"
  /\ call.ret = <<"a", " ", "+", " ", "#", "a", ".", "a", " ", " ", " ", "a">>

(* C6: when an operand of combine(L, c, R) is the result of an earlier     *)
(* combine, on either side, the facade's stringify returns the rendering   *)
(* of L, then c, then the rendering of R.                                  *)
C6_NestedEitherSide ==
  [][(call'.op = "drain" /\ IsNested(log) /\ NonEmptyTokens(log))
     => call'.ret = Spaced(NestedPieces(log))]_vars

(* C7: combine of two chains of non-empty rendering with a non-empty       *)
(* combinator puts render(left), c, render(right) in front of the pending  *)
(* sequence, removes nothing from it, leaves the chains unchanged and      *)
(* returns the facade.                                                     *)
C7_CombinePrepends ==
  [][(/\ call'.op = "combine"
      /\ call'.left >= 1 /\ call'.right >= 1
      /\ call'.combinator # <<>>
      /\ Render(hist[call'.left]) # <<>> /\ Render(hist[call'.right]) # <<>>)
     => /\ combiner' = <<Render(hist[call'.left]), call'.combinator,
                         Render(hist[call'.right])>> \o combiner
        /\ chains' = chains
        /\ call'.ref = 0]_vars

\* a second combine of two different chains was put in front of a first
C7_Witness ==
  /\ call.op = "combine" /\ call.left >= 1 /\ call.right >= 1
  /\ call.left # call.right /\ call.combinator # <<>>
  /\ Render(hist[1]) # <<>> /\ Render(hist[2]) # <<>> /\ Render(hist[1]) # Render(hist[2])
  /\ Len(log) = 2
  /\ Len(combiner) = 6
  /\ SubSeq(combiner, 1, 3) # SubSeq(combiner, 4, 6)

(* C8: the pending sequence is empty at load time; the facade's stringify  *)
(* returns the pieces of the combine calls made since the stringify        *)
(* before it, joined by single spaces, and leaves the sequence empty, so   *)
(* that a stringify right after another returns the empty string.          *)
C8_StringifyDrains ==
  /\ combiner = <<>>
  /\ [][call'.op = "drain" =>
          /\ call'.ret = Spaced(Pending(log))
          /\ combiner' = <<>>
          /\ call'.again => call'.ret = <<>>]_vars

\* combine(a, '+', #a.a) then stringify returned 'a + #a.a' and left the
\* pending sequence empty
C8_Witness ==
  /\ call.op = "drain" /\ ~call.again
  /\ call.ret = <<"a", " ", "+", " ", "#", "a", ".", "a">>
  /\ combiner = <<>>

(* C9 as stated: every string passed as combinator, the empty string       *)
(* included, becomes a piece of its own between the pieces of the operands.*)
C9_EveryTokenInserted ==
  [][call'.op = "combine" =>
       combiner' = Piece(Logged(call'.left)) \o <<call'.combinator>>
                     \o Piece(Logged(call'.right)) \o combiner]_vars

(* C9 as amended: every non-empty string passed as combinator becomes a    *)
(* piece of its own between the pieces of the operands; the empty string   *)
(* adds no piece.                                                          *)
C9_NonEmptyTokenInserted ==
  [][call'.op = "combine" =>
       /\ call'.combinator # <<>> =>
            combiner' = Piece(Logged(call'.left)) \o <<call'.combinator>>
                          \o Piece(Logged(call'.right)) \o combiner
       /\ call'.combinator = <<>> =>
            combiner' = Piece(Logged(call'.left)) \o Piece(Logged(call'.right))
                          \o combiner]_vars

\* combine was called with ' ' between two chains after it was called with ''
C9_Witness ==
  /\ call.op = "combine" /\ call.combinator = <<" ">>
  /\ call.left >= 1 /\ call.right >= 1
  /\ Len(log) = 2 /\ log[1].combinator = <<>>
  /\ combiner[2] = <<" ">>

\* the piece of an operand when an empty rendering adds nothing
NonEmptyPiece(operand) ==
  IF operand.chain /\ Render(operand.calls) # <<>> THEN <<Render(operand.calls)>>
  ELSE <<>>

\* the pieces pending when operands of empty rendering add nothing
RECURSIVE NonEmptyPending(_)
NonEmptyPending(calls) ==
  IF Len(calls) = 0 THEN <<>>
  ELSE LET n == Len(calls)
       IN NonEmptyPiece(calls[n].left) \o TokenPiece(calls[n].combinator)
            \o NonEmptyPiece(calls[n].right) \o NonEmptyPending(SubSeq(calls, 1, n - 1))

(* C15 as stated: a chain operand whose rendering is the empty string adds *)
(* no piece to the pending sequence, so that the facade's stringify        *)
(* returns no separator space for it.                                      *)
C15_EmptyOperandAddsNothing ==
  [][/\ call'.op = "combine" =>
          combiner' = NonEmptyPiece(Logged(call'.left)) \o TokenPiece(call'.combinator)
                        \o NonEmptyPiece(Logged(call'.right)) \o combiner
     /\ call'.op = "drain" => call'.ret = Spaced(NonEmptyPending(log))]_vars

(* C15 as amended: every chain operand adds one piece, its rendering, also *)
(* when the rendering is the empty string; the facade's stringify then     *)
(* returns a separator space next to the empty piece: the string starts    *)
(* with a space when the newest combine had such a chain on its left and   *)
(* more pieces are pending.                                                *)
C15_EmptyOperandAddsEmptyPiece ==
  [][/\ (call'.op = "combine" /\ call'.left >= 1) =>
          /\ Len(combiner') >= 1
          /\ combiner'[1] = Render(hist[call'.left])
     /\ (call'.op = "combine" /\ call'.right >= 1) =>
          LET at == Len(Piece(Logged(call'.left))) + Len(TokenPiece(call'.combinator)) + 1
          IN /\ Len(combiner') = Len(combiner) + at
             /\ combiner'[at] = Render(hist[call'.right])
     /\ (/\ call'.op = "drain"
         /\ Len(log) >= 1
         /\ log[Len(log)].left.chain
         /\ Render(log[Len(log)].left.calls) = <<>>
         /\ Len(combiner) >= 2) =>
          /\ Len(call'.ret) >= 1
          /\ call'.ret[1] = " "]_vars

\* combine(element(''), '+', element('a')) then stringify returned ' + a'
C15_Witness ==
  /\ call.op = "drain"
  /\ call.ret = <<" ", "+", " ", "a">>

----------------------------------------------------------------------------
(* Rectangle *)

(* C13: for all integers w and h, negative ones included, the object       *)
(* Rectangle(w, h) builds has width w and height h, and getArea returns    *)
(* the product of the width and the height the object has when it is       *)
(* called, and changes neither; Rectangle(10, 20).getArea() is 200.        *)
C13_AreaOfCurrentSides ==
  [][/\ rcall'.op = "new" =>
          /\ rect'[1].width = rcall'.width
          /\ rect'[1].height = rcall'.height
          /\ (rcall'.width = 10 /\ rcall'.height = 20) => getArea(rect'[1]) = 200
     /\ rcall'.op = "getArea" =>
          /\ rcall'.ret = rect[1].width * rect[1].height
          /\ rect' = rect]_vars

\* an object built with other sides was given the sides -1 and 20, and then
\* getArea returned -20
C13_Witness ==
  /\ rcall.op = "getArea"
  /\ rect # <<>>
  /\ rect[1].width = -1 /\ rect[1].height = 20
  /\ rect[1].scope.width # -1 /\ rect[1].scope.height # 20
  /\ rcall.ret = -20

----------------------------------------------------------------------------
(* getJSON and fromJSON *)

\* the fields of an object as a set of names with their values
FieldSet(obj) == {obj.fields[i] : i \in 1..Len(obj.fields)}

(* C12: for every object x whose fields JSON represents and every          *)
(* prototype Proto, fromJSON(Proto, getJSON(x)) is an object whose         *)
(* prototype is Proto and whose fields are those of x, no more and no      *)
(* fewer, with equal values.                                               *)
C12_RoundTrip ==
  js.object # <<>> =>
    /\ js.object[1].proto = js.Proto
    /\ Len(js.object[1].fields) = Len(js.x.fields)
    /\ FieldSet(js.object[1]) = FieldSet(js.x)

\* an object of prototype Object.prototype with the fields h = -1 and
\* w = 'a"\' came back with the prototype Circle.prototype
C12_Witness ==
  /\ js.object # <<>>
  /\ js.x.proto = "Object.prototype"
  /\ js.Proto = "Circle.prototype"
  /\ js.x.fields = <<[key |-> <<"h">>, value |-> Number(-1)],
                     [key |-> <<"w">>, value |-> String(<<"a", "\"", "\\">>)]>>
  /\ js.json = <<"{", "\"", "h", "\"", ":", "-", "1", ",", "\"", "w", "\"", ":",
                 "\"", "a", "\\", "\"", "\\", "\\", "\"", "}">>
  /\ js.object[1].proto = "Circle.prototype"

====
